---- MODULE Spec2Model ----
(***************************************************************************)
(* A model of utr_scrape.py: the HTML parser parse_full_history_from_html, *)
(* the Playwright session driver live_fetch_profile_html with its login    *)
(* helpers, write_csv and main.                                            *)
(*                                                                         *)
(* Text is a sequence of one-character strings, so that strip, lower, the  *)
(* regular expressions and the CSS attribute-substring selectors are       *)
(* computed on characters as the code computes them.                       *)
(***************************************************************************)
EXTENDS Integers, Sequences, FiniteSets, TLC

\* ---------------------------------------------------------------- bounds
\* Largest number of candidate record nodes in an input document.
MaxItems == 2
\* Largest number of wrapper elements between the header's element and
\* the section element.
MaxWrap == 4
\* Largest number of child frames of the page.
MaxFrames == 1

\* ------------------------------------------------------------ characters
DIGITS == {"0", "1", "2", "3", "4", "5", "6", "7", "8", "9"}

UPPER == <<"A", "B", "C", "D", "E", "F", "G", "H", "I", "J", "K", "L", "M",
           "N", "O", "P", "Q", "R", "S", "T", "U", "V", "W", "X", "Y", "Z">>

LOWER == <<"a", "b", "c", "d", "e", "f", "g", "h", "i", "j", "k", "l", "m",
           "n", "o", "p", "q", "r", "s", "t", "u", "v", "w", "x", "y", "z">>

Range(s) == {s[i] : i \in 1..Len(s)}

SetMin(S) == CHOOSE x \in S : \A y \in S : x <= y

SetMax(S) == CHOOSE x \in S : \A y \in S : y <= x

\* \d
IsDigit(c) == c \in DIGITS

\* \w : a letter, a digit or the underscore
IsWord(c) == c \in DIGITS \/ c \in Range(UPPER) \/ c \in Range(LOWER) \/ c = "_"

\* str.isspace of one character
IsSpace(c) == c \in {" ", "\t", "\n"}

\* str.lower of one character
LowerChar(c) ==
    IF c \in Range(UPPER)
    THEN LOWER[CHOOSE i \in 1..Len(UPPER) : UPPER[i] = c]
    ELSE c

\* str.lower
Lower(s) == [i \in 1..Len(s) |-> LowerChar(s[i])]

\* str.strip
Strip(s) ==
    LET keep == {i \in 1..Len(s) : ~IsSpace(s[i])}
    IN  IF keep = {} THEN <<>> ELSE SubSeq(s, SetMin(keep), SetMax(keep))

\* sep.join(parts)
RECURSIVE Join(_, _)
Join(parts, sep) ==
    IF Len(parts) = 0 THEN <<>>
    ELSE IF Len(parts) = 1 THEN parts[1]
    ELSE parts[1] \o sep \o Join(Tail(parts), sep)

\* whether sub occurs in s as a contiguous substring (the CSS [attr*=sub])
Contains(s, sub) ==
    \E i \in 1..(Len(s) - Len(sub) + 1) : SubSeq(s, i, i + Len(sub) - 1) = sub

\* ---------------------------------------------------- regular expressions
\* k digits starting at position i of s
DigitsAt(s, i, k) == i >= 1 /\ i + k - 1 <= Len(s) /\ \A j \in i..(i + k - 1) : IsDigit(s[j])

\* the character c at position i of s
CharAt(s, i, c) == i >= 1 /\ i <= Len(s) /\ s[i] = c

\* whether position i of s holds a word character (outside s: no)
WordAt(s, i) == i >= 1 /\ i <= Len(s) /\ IsWord(s[i])

\* \b just before position i
Boundary(s, i) == WordAt(s, i - 1) # WordAt(s, i)

\* The lengths (a, b) that \d{1,2} . \d{1,2} can take, greedy first.
UtrShapes == << <<2, 2>>, <<2, 1>>, <<1, 2>>, <<1, 1>> >>

\* \d{a}\.\d{b} at position i
UtrShapeAt(s, i, sh) ==
    /\ DigitsAt(s, i, sh[1])
    /\ CharAt(s, i + sh[1], ".")
    /\ DigitsAt(s, i + sh[1] + 1, sh[2])

\* Length of the match of \d{1,2}\.\d{1,2} at position i (0: none);
\* with bounded, of \b(\d{1,2}\.\d{1,2})\b.
UtrMatchAt(s, i, bounded) ==
    LET ok(k) == /\ UtrShapeAt(s, i, UtrShapes[k])
                 /\ bounded => /\ Boundary(s, i)
                               /\ Boundary(s, i + UtrShapes[k][1] + 1 + UtrShapes[k][2])
        hits == {k \in 1..Len(UtrShapes) : ok(k)}
    IN  IF hits = {} THEN 0
        ELSE LET sh == UtrShapes[SetMin(hits)] IN sh[1] + 1 + sh[2]

\* The lengths (a, b, c) of \d{1,2}/\d{1,2}/\d{2,4}, greedy first.
SlashShapes ==
    << <<2, 2, 4>>, <<2, 2, 3>>, <<2, 2, 2>>, <<2, 1, 4>>, <<2, 1, 3>>, <<2, 1, 2>>,
       <<1, 2, 4>>, <<1, 2, 3>>, <<1, 2, 2>>, <<1, 1, 4>>, <<1, 1, 3>>, <<1, 1, 2>> >>

\* \d{a}/\d{b}/\d{c}\b at position i
SlashShapeAt(s, i, sh) ==
    /\ DigitsAt(s, i, sh[1])
    /\ CharAt(s, i + sh[1], "/")
    /\ DigitsAt(s, i + sh[1] + 1, sh[2])
    /\ CharAt(s, i + sh[1] + 1 + sh[2], "/")
    /\ DigitsAt(s, i + sh[1] + sh[2] + 2, sh[3])
    /\ Boundary(s, i + sh[1] + sh[2] + 2 + sh[3])

\* \d{4}-\d{2}-\d{2}\b at position i
IsoAt(s, i) ==
    /\ DigitsAt(s, i, 4)
    /\ CharAt(s, i + 4, "-")
    /\ DigitsAt(s, i + 5, 2)
    /\ CharAt(s, i + 7, "-")
    /\ DigitsAt(s, i + 8, 2)
    /\ Boundary(s, i + 10)

\* Length of the match of \b(\d{4}-\d{2}-\d{2}|\d{1,2}/\d{1,2}/\d{2,4})\b
\* at position i (0: none); the first alternative is tried first.
DateMatchAt(s, i) ==
    IF ~Boundary(s, i) THEN 0
    ELSE IF IsoAt(s, i) THEN 10
    ELSE LET hits == {k \in 1..Len(SlashShapes) : SlashShapeAt(s, i, SlashShapes[k])}
         IN  IF hits = {} THEN 0
             ELSE LET sh == SlashShapes[SetMin(hits)] IN sh[1] + sh[2] + sh[3] + 2

\* re.search: the leftmost match, as [found, text]
NoMatch == [found |-> FALSE, text |-> <<>>]

SearchUtr(s, bounded) ==
    LET at == {i \in 1..Len(s) : UtrMatchAt(s, i, bounded) > 0}
    IN  IF at = {} THEN NoMatch
        ELSE LET i == SetMin(at)
             IN  [found |-> TRUE, text |-> SubSeq(s, i, i + UtrMatchAt(s, i, bounded) - 1)]

SearchDate(s) ==
    LET at == {i \in 1..Len(s) : DateMatchAt(s, i) > 0}
    IN  IF at = {} THEN NoMatch
        ELSE LET i == SetMin(at)
             IN  [found |-> TRUE, text |-> SubSeq(s, i, i + DateMatchAt(s, i) - 1)]

\* ------------------------------------------------------------- documents
(***************************************************************************)
(* A parsed document (BeautifulSoup(html, "lxml")) is the sequence of its  *)
(* nodes in document order.  Node 0 is the BeautifulSoup object itself;    *)
(* a node is [parent, tag, cls, text]: its parent's index, its tag         *)
(* ("#text" for a string), its class attribute and, for a string, its     *)
(* characters.                                                             *)
(***************************************************************************)
SOUP == 0

\* Python's None, for a node reference
NONE == -1

ITEM_MARK == <<"h", "i", "s", "t", "o", "r", "y", "I", "t", "e", "m", "_", "_">>

DATE_MARK == <<"h", "i", "s", "t", "o", "r", "y", "I", "t", "e", "m",
               "D", "a", "t", "e", "_", "_">>

RATING_MARK == <<"h", "i", "s", "t", "o", "r", "y", "I", "t", "e", "m",
                 "R", "a", "t", "i", "n", "g", "_", "_">>

FULL_HISTORY_HEADER_CANDIDATES ==
    << <<"F", "u", "l", "l", " ", "R", "a", "t", "i", "n", "g", " ",
         "H", "i", "s", "t", "o", "r", "y">>,
       <<"F", "u", "l", "l", " ", "R", "a", "t", "i", "n", "g", "s", " ",
         "H", "i", "s", "t", "o", "r", "y">> >>

\* The indices of set S in increasing order (document order).
RECURSIVE InOrder(_)
InOrder(S) ==
    IF S = {} THEN <<>> ELSE <<SetMin(S)>> \o InOrder(S \ {SetMin(S)})

\* node.parent (None for the BeautifulSoup object)
ParentOf(doc, n) == IF n = SOUP THEN NONE ELSE doc[n].parent

\* whether a is a proper ancestor of n
RECURSIVE IsAncestor(_, _, _)
IsAncestor(doc, a, n) ==
    IF n = SOUP \/ n = NONE THEN FALSE
    ELSE doc[n].parent = a \/ IsAncestor(doc, a, doc[n].parent)

Descendants(doc, c) == {n \in 1..Len(doc) : IsAncestor(doc, c, n)}

\* div[class*='<mark>']
IsDivWith(doc, n, mark) == doc[n].tag = "div" /\ Contains(doc[n].cls, mark)

\* div:has(div[class*='historyItemDate__'])
IsDivHasDate(doc, n) ==
    doc[n].tag = "div" /\ \E d \in Descendants(doc, n) : IsDivWith(doc, d, DATE_MARK)

\* container.select("div[class*='<mark>']"), in document order
SelectDivWith(doc, c, mark) ==
    InOrder({n \in Descendants(doc, c) : IsDivWith(doc, n, mark)})

\* container.select("div:has(div[class*='historyItemDate__'])")
SelectDivHasDate(doc, c) ==
    InOrder({n \in Descendants(doc, c) : IsDivHasDate(doc, n)})

\* item.select_one("div[class*='<mark>']"): the first match or None
SelectOne(doc, c, mark) ==
    LET hits == SelectDivWith(doc, c, mark)
    IN  IF Len(hits) = 0 THEN NONE ELSE hits[1]

\* The stripped, non-empty strings below node n, in document order.
StrippedStrings(doc, n) ==
    LET strs == InOrder({t \in Descendants(doc, n) :
                            doc[t].tag = "#text" /\ Strip(doc[t].text) # <<>>})
    IN  [k \in 1..Len(strs) |-> Strip(doc[strs[k]].text)]

\* el.get_text(sep, strip=True)
GetText(doc, n, sep) == Join(StrippedStrings(doc, n), sep)

\* " ".join(x.get_text(" ", strip=True) for x in item.select("div, span"))
BroadText(doc, item) ==
    LET els == InOrder({n \in Descendants(doc, item) : doc[n].tag \in {"div", "span"}})
    IN  Join([k \in 1..Len(els) |-> GetText(doc, els[k], <<" ">>)], <<" ">>)

\* Whether a string of the document is one of the section headers
\* (lines 32-33: stripped, compared in lower case).
IsHeaderText(txt) ==
    LET text == Strip(txt)
    IN  /\ text # <<>>
        /\ \E k \in 1..Len(FULL_HISTORY_HEADER_CANDIDATES) :
               Lower(text) = Lower(FULL_HISTORY_HEADER_CANDIDATES[k])

\* Lines 30-35: the first string of the document that is a header, or None.
FindHeader(doc) ==
    LET hits == {n \in 1..Len(doc) : doc[n].tag = "#text" /\ IsHeaderText(doc[n].text)}
    IN  IF hits = {} THEN NONE ELSE SetMin(hits)

\* Line 43: container.select("div[class*='historyItem__'],
\* div:has(div[class*='historyItemDate__'])") is non-empty.
HasRecordMarker(doc, c) ==
    \E n \in Descendants(doc, c) : IsDivWith(doc, n, ITEM_MARK) \/ IsDivHasDate(doc, n)

\* Lines 50-52 with a fallback that takes any div holding a rating field.
ItemNodes_anyRating(doc, c) ==
    LET marked == SelectDivWith(doc, c, ITEM_MARK)
    IN  IF Len(marked) > 0 THEN marked
        ELSE InOrder({n \in Descendants(doc, c) :
                        /\ doc[n].tag = "div"
                        /\ \E d \in Descendants(doc, n) : IsDivWith(doc, d, RATING_MARK)})

\* Lines 50-52: the candidate record nodes of the container.
ItemNodes(doc, c) ==
    LET marked == SelectDivWith(doc, c, ITEM_MARK)
    IN  IF Len(marked) > 0 THEN marked ELSE SelectDivHasDate(doc, c)

\* Lines 70-73 left out: the rating text is kept as found.
NormalizeUtr_kept(utr_text) == utr_text

\* Lines 70-73: the rating text reduced to its first numeric token, when
\* it has one.
NormalizeUtr(utr_text) ==
    IF utr_text # <<>> /\ SearchUtr(utr_text, FALSE).found
    THEN SearchUtr(utr_text, FALSE).text
    ELSE utr_text

\* Lines 55-76 with line 75 testing the rating only.
ItemRows_ratingOnly(doc, item) ==
    LET date_el == SelectOne(doc, item, DATE_MARK)
        utr_el  == SelectOne(doc, item, RATING_MARK)
        date0   == IF date_el # NONE THEN GetText(doc, date_el, <<>>) ELSE <<>>
        utr0    == IF utr_el # NONE THEN GetText(doc, utr_el, <<>>) ELSE <<>>
        scan    == date0 = <<>> \/ utr0 = <<>>
        txt     == BroadText(doc, item)
        m_date  == SearchDate(txt)
        m_utr   == SearchUtr(txt, TRUE)
        date1   == IF scan /\ m_date.found /\ date0 = <<>> THEN m_date.text ELSE date0
        utr1    == IF scan /\ m_utr.found /\ utr0 = <<>> THEN m_utr.text ELSE utr0
        utr2    == NormalizeUtr(utr1)
    IN  IF utr2 # <<>>
        THEN << [date |-> date1, UTR |-> utr2] >>
        ELSE <<>>

\* Lines 55-76: the rows one candidate node appends (none or one).
ItemRows(doc, item) ==
    LET date_el == SelectOne(doc, item, DATE_MARK)
        utr_el  == SelectOne(doc, item, RATING_MARK)
        date0   == IF date_el # NONE THEN GetText(doc, date_el, <<>>) ELSE <<>>
        utr0    == IF utr_el # NONE THEN GetText(doc, utr_el, <<>>) ELSE <<>>
        scan    == date0 = <<>> \/ utr0 = <<>>
        txt     == BroadText(doc, item)
        m_date  == SearchDate(txt)
        m_utr   == SearchUtr(txt, TRUE)
        date1   == IF scan /\ m_date.found /\ date0 = <<>> THEN m_date.text ELSE date0
        utr1    == IF scan /\ m_utr.found /\ utr0 = <<>> THEN m_utr.text ELSE utr0
        utr2    == NormalizeUtr(utr1)
    IN  IF date1 # <<>> /\ utr2 # <<>>
        THEN << [date |-> date1, UTR |-> utr2] >>
        ELSE <<>>

\* ------------------------------------------------------- input documents
(***************************************************************************)
(* The documents the parser is run on: html > body, an optional header     *)
(* (an h2 holding the header string, below body directly or below a        *)
(* section div and a chain of wrapper divs), and up to MaxItems candidate  *)
(* subtrees, the first `split` of them inside the section and the others   *)
(* after it, below body.                                                   *)
(***************************************************************************)
Elem(p, tag, cls) == [parent |-> p, tag |-> tag, cls |-> cls, text |-> <<>>]

Str(p, chars) == [parent |-> p, tag |-> "#text", cls |-> <<>>, text |-> chars]

ItemCls == ITEM_MARK \o <<"a", "1">>

DateCls == DATE_MARK \o <<"b", "2">>

RatingCls == RATING_MARK \o <<"c", "3">>

TxtIso == <<"2", "0", "2", "3", "-", "0", "1", "-", "0", "5">>

TxtSlash == <<"3", "/", "1", "0", "/", "2", "3">>

TxtUtrA == <<"1", "1", ".", "2", "0">>

TxtUtrB == <<"1", "1", ".", "4", "5">>

TxtUtrLabelled == <<"U", "T", "R", ":", " ", "1", "1", ".", "2", "0", "p", "t", "s">>

TxtUnrated == <<"U", "n", "r", "a", "t", "e", "d">>

\* A subtree of the given shape; parent 0 is the node it hangs from, a
\* parent k > 0 the subtree's k-th node.
Marked(date, utr) ==
    << Elem(0, "div", ItemCls),
       Elem(1, "div", DateCls), Str(2, date),
       Elem(1, "div", RatingCls), Str(4, utr) >>

ItemKinds ==
    << \* 1, 2: a record node with both marked fields
       Marked(TxtIso, TxtUtrA),
       Marked(TxtSlash, TxtUtrB),
       \* 3: the rating carries a label and a unit
       Marked(TxtIso, TxtUtrLabelled),
       \* 4: the rating field holds no number
       Marked(TxtIso, TxtUnrated),
       \* 5: a rating and no date anywhere
       << Elem(0, "div", ItemCls), Elem(1, "div", RatingCls), Str(2, TxtUtrA) >>,
       \* 6: no marked field, the values sit in spans
       << Elem(0, "div", ItemCls), Elem(1, "span", <<>>), Str(2, TxtSlash),
          Elem(1, "span", <<>>), Str(4, TxtUtrB) >>,
       \* 7: marked fields inside a div without the record marker
       << Elem(0, "div", <<>>), Elem(1, "div", DateCls), Str(2, TxtSlash),
          Elem(1, "div", RatingCls), Str(4, TxtUtrA) >>,
       \* 8: no record marker and no date marker at all
       << Elem(0, "div", <<>>), Elem(1, "span", <<>>), Str(2, TxtIso),
          Elem(1, "div", RatingCls), Str(4, TxtUtrB) >>,
       \* 9: a record node whose first child is another record node
       << Elem(0, "div", ItemCls),
          Elem(1, "div", ItemCls),
          Elem(2, "div", DateCls), Str(3, TxtSlash),
          Elem(2, "div", RatingCls), Str(5, TxtUtrB),
          Elem(1, "div", DateCls), Str(7, TxtIso),
          Elem(1, "div", RatingCls), Str(9, TxtUtrB) >> >>

\* The header strings of the input documents: an exact one, and one that
\* differs in case and surrounding space.
HeaderTexts ==
    << FULL_HISTORY_HEADER_CANDIDATES[1],
       <<" ", "f", "u", "l", "l", " ", "R", "A", "T", "I", "N", "G", "S", " ", "h", "i", "s", "t", "o", "r", "y", " ">> >>

\* The subtree placed after `offset` nodes, hanging from node `attach`.
Place(sub, offset, attach) ==
    [k \in 1..Len(sub) |->
        [sub[k] EXCEPT !.parent = IF @ = 0 THEN attach ELSE @ + offset]]

\* The subtrees of kinds[from..Len(kinds)] appended to doc, each hanging
\* from node `attach`.
RECURSIVE PlaceAll(_, _, _, _)
PlaceAll(doc, kinds, from, attach) ==
    IF from > Len(kinds) THEN doc
    ELSE PlaceAll(doc \o Place(ItemKinds[kinds[from]], Len(doc), attach),
                  kinds, from + 1, attach)

\* A chain of w wrapper divs appended to doc below its last node.
RECURSIVE Wrap(_, _)
Wrap(doc, w) ==
    IF w = 0 THEN doc ELSE Wrap(Append(doc, Elem(Len(doc), "div", <<>>)), w - 1)

Shell == << Elem(SOUP, "html", <<>>), Elem(1, "body", <<>>) >>

\* No header: every candidate hangs from body.
PlainDoc(kinds) == PlaceAll(Shell, kinds, 1, 2)

\* The header's h2 hangs from body, the candidates follow it.
TopDoc(h, kinds) ==
    PlaceAll(Shell \o << Elem(2, "h2", <<>>), Str(3, HeaderTexts[h]) >>, kinds, 1, 2)

\* body > section > depth-1 wrappers > h2 > header; the first `split`
\* candidates hang from the section (node 3), the others from body.
SectionDoc(depth, kinds, split) ==
    LET chain  == Wrap(Append(Shell, Elem(2, "div", <<>>)), depth - 1)
        headed == chain \o << Elem(Len(chain), "h2", <<>>),
                              Str(Len(chain) + 1, HeaderTexts[2]) >>
        inside == PlaceAll(headed, SubSeq(kinds, 1, split), 1, 3)
    IN  PlaceAll(inside, kinds, split + 1, 2)

KindLists == UNION {[1..n -> 1..Len(ItemKinds)] : n \in 0..MaxItems}

\* What describes one input document: its shape, its header string (top),
\* the depth of its header (section), its candidates and how many of them
\* lie in the section.
DocParams ==
    {[shape |-> "plain", h |-> 1, depth |-> 0, kinds |-> ks, split |-> 0] :
        ks \in KindLists}
    \cup {[shape |-> "top", h |-> h, depth |-> 0, kinds |-> ks, split |-> 0] :
            h \in 1..Len(HeaderTexts), ks \in KindLists}
    \cup UNION {{[shape |-> "section", h |-> 2, depth |-> d, kinds |-> ks, split |-> sp] :
                    sp \in 0..Len(ks)} : d \in 1..MaxWrap, ks \in KindLists}

DocOf(p) ==
    CASE p.shape = "plain" -> PlainDoc(p.kinds)
      [] p.shape = "top" -> TopDoc(p.h, p.kinds)
      [] p.shape = "section" -> SectionDoc(p.depth, p.kinds, p.split)

\* ----------------------------------------------------------------- state
VARIABLES
    entry,        \* the function the run entered: "main", "parse", "live", "login"
    pc,           \* the statement about to execute
    exc,          \* the exception that ended the run, or "none"
    \* main and write_csv
    args,         \* the parsed command line
    html,         \* the document handed to the parser
    title,        \* the page title / the <title> of a saved document
    player_name,
    rows,         \* what parse_full_history_from_html returned
    csv,          \* the export file: [columns, rows]; no columns: not written
    stdout,       \* what write_csv printed
    \* parse_full_history_from_html
    header_node, container, climb, item_nodes, item_i, prows, seen, uniq, dedup_i,
    \* live_fetch_profile_html and login_if_needed
    email, password,          \* the credentials, stripped
    save_storage_state_to,    \* whether a path to save the session to was given
    pw,                       \* sync_playwright(): "none", "running", "stopped"
    browser, context,         \* "none", "open", "closed" (close() was called)
    page,                     \* what the page shows
    store,                    \* whether the session store was written
    diag_failed,              \* whether some diagnostic step failed
    looked,                   \* looks_logged_in's result at line 338
    attempted, frame_i,       \* login_if_needed's locals
    login_ret,                \* login_if_needed's result
    captured,                 \* <<the page the returned markup was taken from>>
    log                       \* the page interactions so far, in order

mainVars == <<args, html, title, player_name, rows, csv, stdout>>

sessVars == <<email, password, save_storage_state_to, pw, browser, context, page,
              store, diag_failed, looked, attempted, frame_i, login_ret,
              captured, log>>

parseVars == <<header_node, container, climb, item_nodes, item_i, prows, seen, uniq, dedup_i>>

vars == <<entry, pc, exc, mainVars, parseVars, sessVars>>

\* The locals of parse_full_history_from_html before it is called.
ParseIdle ==
    /\ header_node = NONE
    /\ container = NONE
    /\ climb = 0
    /\ item_nodes = <<>>
    /\ item_i = 0
    /\ prows = <<>>
    /\ seen = {}
    /\ uniq = <<>>
    /\ dedup_i = 0

\* --user-id, as in the help text of line 395
USER_ID == 119061

\* The export file before it is written.
NoFile == [columns |-> <<>>, rows |-> <<>>]

\* main's locals before main runs.
MainIdle ==
    /\ args = [user_id |-> USER_ID]
    /\ title = <<>>
    /\ player_name = <<>>
    /\ rows = <<>>
    /\ csv = NoFile
    /\ stdout = <<>>

\* ------------------------------------------------------------- the page
(***************************************************************************)
(* What the login helpers can see of a page:                               *)
(*   overlay : "none", "plain" (a popup overlay without a Sign In          *)
(*             button), "signin" (an overlay with one)                     *)
(*   form    : "none", "id" (#emailInput and #passwordInput), "attr" (both *)
(*             inputs, found by name or type only), "partial" (only        *)
(*             #emailInput)                                                *)
(*   button  : whether a button with the text SIGN IN is on the page       *)
(*   frames  : the child frames in document order, each "form" (holds both *)
(*             inputs) or "empty"                                          *)
(***************************************************************************)
FrameLists == UNION {[1..n -> {"form", "empty"}] : n \in 0..MaxFrames}

PageStates ==
    [overlay : {"none", "plain", "signin"},
     form : {"none", "id", "attr", "partial"},
     button : BOOLEAN,
     frames : FrameLists]

BlankPage == [overlay |-> "none", form |-> "none", button |-> FALSE, frames |-> <<>>]

\* The session's state before live_fetch_profile_html runs.
SessIdle ==
    /\ email = <<>>
    /\ password = <<>>
    /\ save_storage_state_to = FALSE
    /\ pw = "none"
    /\ browser = "none"
    /\ context = "none"
    /\ page = BlankPage
    /\ store = FALSE
    /\ diag_failed = FALSE
    /\ looked = "unset"
    /\ attempted = FALSE
    /\ frame_i = 0
    /\ login_ret = "unset"
    /\ captured = <<>>
    /\ log = <<>>

\* --------------------------------------- parse_full_history_from_html
\* range(4), line 40
CLIMB_LEVELS == 4

\* Lines 27-35: parse the markup, look for the header string.
ParseFindHeader ==
    /\ pc = "parse:27"
    /\ header_node' = FindHeader(html)
    /\ pc' = "parse:37"
    /\ UNCHANGED <<entry, exc, mainVars, sessVars, container, climb, item_nodes, item_i,
                   prows, seen, uniq, dedup_i>>

\* Lines 37-39: the container starts at the document, or at the header's
\* parent element.
ParseClimbStart ==
    /\ pc = "parse:37"
    /\ IF header_node # NONE
       THEN /\ container' = ParentOf(html, header_node)
            /\ pc' = "parse:40"
       ELSE /\ container' = SOUP
            /\ pc' = "parse:49"
    /\ climb' = 0
    /\ UNCHANGED <<entry, exc, mainVars, sessVars, header_node, item_nodes, item_i,
                   prows, seen, uniq, dedup_i>>

\* Lines 40-45: one turn of the climb; the loop ends on a break or after
\* CLIMB_LEVELS turns.
ParseClimbStep ==
    /\ pc = "parse:40"
    /\ IF container = NONE \/ HasRecordMarker(html, container)
       THEN /\ pc' = "parse:46"
            /\ UNCHANGED <<container, climb>>
       ELSE /\ container' = ParentOf(html, container)
            /\ climb' = climb + 1
            /\ pc' = IF climb + 1 < CLIMB_LEVELS THEN "parse:40" ELSE "parse:46"
    /\ UNCHANGED <<entry, exc, mainVars, sessVars, header_node, item_nodes, item_i,
                   prows, seen, uniq, dedup_i>>

\* Lines 46-47: a climb that ran off the tree falls back to the document.
ParseClimbEnd ==
    /\ pc = "parse:46"
    /\ container' = IF container = NONE THEN SOUP ELSE container
    /\ pc' = "parse:49"
    /\ UNCHANGED <<entry, exc, mainVars, sessVars, header_node, climb, item_nodes, item_i,
                   prows, seen, uniq, dedup_i>>

\* Lines 49-52: the candidate nodes.
ParseSelect ==
    /\ pc = "parse:49"
    /\ prows' = <<>>
    /\ item_nodes' = ItemNodes(html, container)
    /\ item_i' = 1
    /\ pc' = "parse:54"
    /\ UNCHANGED <<entry, exc, mainVars, sessVars, header_node, container, climb,
                   seen, uniq, dedup_i>>

\* Lines 54-76: the loop body for one candidate node.
ParseItem ==
    /\ pc = "parse:54"
    /\ item_i <= Len(item_nodes)
    /\ prows' = prows \o ItemRows(html, item_nodes[item_i])
    /\ item_i' = item_i + 1
    /\ UNCHANGED <<entry, pc, exc, mainVars, sessVars, header_node, container, climb,
                   item_nodes, seen, uniq, dedup_i>>

\* Line 79, once the candidates are exhausted.
ParseDedupStart ==
    /\ pc = "parse:54"
    /\ item_i > Len(item_nodes)
    /\ seen' = {}
    /\ uniq' = <<>>
    /\ dedup_i' = 1
    /\ pc' = "parse:80"
    /\ UNCHANGED <<entry, exc, mainVars, sessVars, header_node, container, climb,
                   item_nodes, item_i, prows>>

\* Line 81
RowKey(r) == <<r.date, r.UTR>>

\* Line 82 with the membership test lost: every row counts as new.
IsNewKey_always(key, seenKeys) == TRUE

\* Line 82
IsNewKey(key, seenKeys) == key \notin seenKeys

\* Lines 80-84: the loop body for one row.
ParseDedup ==
    /\ pc = "parse:80"
    /\ dedup_i <= Len(prows)
    /\ LET r == prows[dedup_i]
       IN  IF IsNewKey(RowKey(r), seen)
           THEN /\ seen' = seen \cup {RowKey(r)}
                /\ uniq' = Append(uniq, r)
           ELSE UNCHANGED <<seen, uniq>>
    /\ dedup_i' = dedup_i + 1
    /\ UNCHANGED <<entry, pc, exc, mainVars, sessVars, header_node, container, climb,
                   item_nodes, item_i, prows>>

\* Line 85: return uniq (to main, lines 407 and 418, when main called).
ParseReturn ==
    /\ pc = "parse:80"
    /\ dedup_i > Len(prows)
    /\ rows' = uniq
    /\ pc' = IF entry = "parse" THEN "parse:returned" ELSE "write_csv:380"
    /\ UNCHANGED <<entry, exc, args, html, title, player_name, csv, stdout, parseVars,
                   sessVars>>

NextParse ==
    \/ ParseFindHeader
    \/ ParseClimbStart
    \/ ParseClimbStep
    \/ ParseClimbEnd
    \/ ParseSelect
    \/ ParseItem
    \/ ParseDedupStart
    \/ ParseDedup
    \/ ParseReturn

\* parse_full_history_from_html called on each input document.
InitParse ==
    /\ entry = "parse"
    /\ pc = "parse:27"
    /\ exc = "none"
    /\ \E p \in DocParams : html = DocOf(p)
    /\ MainIdle
    /\ ParseIdle
    /\ SessIdle

SpecParse == InitParse /\ [][NextParse]_vars

\* ------------------------------------------------- Playwright helpers
\* Lines 255-264: raised says that a locator call raised.
LooksLoggedIn(p, raised) ==
    IF raised THEN FALSE
    ELSE IF p.overlay # "none" THEN FALSE
    ELSE IF p.form \in {"id", "partial"} \/ p.button THEN FALSE
    ELSE TRUE

\* Lines 172-175: both the email and the password input are found.
HasLoginFields(p) == p.form \in {"id", "attr"}

\* Lines 166-207, try_fill_login_in_context at location loc: what it
\* returns and what it did.  Without the fields it returns False (175);
\* with them it may time out waiting for them to show (177-178), raise
\* while typing or submitting (181-203), or submit and return True (205).
TryFillOutcomes(loc, hasFields) ==
    IF ~hasFields
    THEN {[ret |-> FALSE, events |-> << <<"probe", loc>> >>]}
    ELSE {[ret |-> FALSE, events |-> << <<"probe", loc>> >>],
          [ret |-> FALSE, events |-> << <<"probe", loc>>, <<"fill", loc>> >>],
          [ret |-> TRUE,
           events |-> << <<"probe", loc>>, <<"fill", loc>>, <<"submit", loc>> >>]}

\* What the page shows once credentials were submitted: the same (the
\* login was refused) or a page without login surface.
AfterSubmit(p) == {p, BlankPage}

\* Lines 222-224: page.wait_for_load_state("networkidle"): reached, timed
\* out (PWTimeout, then the 800 ms delay), or another error.
IdleWaits == {"idle", "timeout", "error"}

\* What the page shows after the overlay's Sign In was clicked.
AfterOverlayClick(p) ==
    {[p EXCEPT !.overlay = o, !.form = f] : o \in {"none", p.overlay}, f \in {p.form, "id"}}

\* Lines 120-149, click_overlay_sign_in_if_present: [ret, clicked, page].
ClickOverlayOutcomes(p) ==
    LET \* lines 126-134: the overlay as found, at once or within 1500 ms
        seen_as == IF p.overlay = "none" THEN {"none", "plain", "signin"} ELSE {p.overlay}
        found(o) == [p EXCEPT !.overlay = o]
    IN  \* line 148: some call raised before the click
        {[ret |-> FALSE, clicked |-> FALSE, page |-> p]}
        \cup {[ret |-> FALSE, clicked |-> FALSE, page |-> found(o)] :
                 o \in seen_as \ {"signin"}}
        \* lines 140-146: clicked; False only if both waits raised
        \cup {[ret |-> r, clicked |-> TRUE, page |-> q] :
                 r \in BOOLEAN,
                 q \in IF "signin" \in seen_as THEN AfterOverlayClick(found("signin")) ELSE {}}

\* Lines 151-164, wait_for_login_form: the page after the wait (the
\* result is not used by either caller).
WaitFormOutcomes(p) == {p} \cup (IF p.form = "none" THEN {[p EXCEPT !.form = "id"]} ELSE {})

\* page.frames: the main frame, then its child frames.
AllFrames(p) == <<"main">> \o p.frames

\* Line 214 testing the email only.
CredsMissing_emailOnly(e, pwd) == e = <<>>

\* Line 214
CredsMissing(e, pwd) == e = <<>> \/ pwd = <<>>

\* Where login_if_needed returns to.
LoginReturnPc == IF entry = "login" THEN "login:returned" ELSE "live:346"

\* Where an exception leaving login_if_needed goes.
LoginRaisePc == IF entry = "login" THEN "raised" ELSE "live:exit"

PyBool(b) == IF b THEN "True" ELSE "False"

\* save_diagnostics (lines 101-107): the screenshot is taken or fails;
\* either way the caller goes on.
DiagStep == \E ok \in BOOLEAN : diag_failed' = (diag_failed \/ ~ok)

\* ------------------------------------------------------ login_if_needed
\* Lines 214-216 followed by the overlay block (227) instead of the
\* inline block (218).
LoginEntry_overlayFirst ==
    /\ pc = "login:214"
    /\ IF CredsMissing(email, password)
       THEN /\ login_ret' = "False"
            /\ pc' = LoginReturnPc
       ELSE /\ login_ret' = login_ret
            /\ pc' = "login:228"
    /\ attempted' = FALSE
    /\ UNCHANGED <<entry, exc, mainVars, parseVars, email, password,
                   save_storage_state_to, pw, browser, context, page, store,
                   diag_failed, looked, frame_i, captured, log>>

\* Lines 214-216
LoginEntry ==
    /\ pc = "login:214"
    /\ IF CredsMissing(email, password)
       THEN /\ login_ret' = "False"
            /\ pc' = LoginReturnPc
       ELSE /\ login_ret' = login_ret
            /\ pc' = "login:219"
    /\ attempted' = FALSE
    /\ UNCHANGED <<entry, exc, mainVars, parseVars, email, password,
                   save_storage_state_to, pw, browser, context, page, store, diag_failed, looked, frame_i, captured, log>>

\* Lines 218-225 without the return of line 225: after an inline
\* submission the overlay block follows.
LoginInline_continues ==
    /\ pc = "login:219"
    /\ \E o \in TryFillOutcomes("inline", HasLoginFields(page)) :
        /\ log' = log \o o.events
        /\ IF o.ret
           THEN /\ attempted' = TRUE
                /\ page' \in AfterSubmit(page)
                /\ \E w \in IdleWaits :
                    IF w = "error"
                    THEN /\ exc' = "Error:222"
                         /\ pc' = LoginRaisePc
                         /\ login_ret' = login_ret
                    ELSE /\ exc' = exc
                         /\ pc' = "login:228"
                         /\ login_ret' = login_ret
           ELSE /\ pc' = "login:228"
                /\ UNCHANGED <<attempted, page, exc, login_ret>>
    /\ UNCHANGED <<entry, mainVars, parseVars, email, password,
                   save_storage_state_to, pw, browser, context, store,
                   diag_failed, looked, frame_i, captured>>

\* Lines 218-225: the inline form.
LoginInline ==
    /\ pc = "login:219"
    /\ \E o \in TryFillOutcomes("inline", HasLoginFields(page)) :
        /\ log' = log \o o.events
        /\ IF o.ret
           THEN /\ attempted' = TRUE
                /\ page' \in AfterSubmit(page)
                /\ \E w \in IdleWaits :
                    IF w = "error"
                    THEN /\ exc' = "Error:222"
                         /\ pc' = LoginRaisePc
                         /\ login_ret' = login_ret
                    ELSE /\ exc' = exc
                         /\ pc' = LoginReturnPc
                         /\ login_ret' = "True"
           ELSE /\ pc' = "login:228"
                /\ UNCHANGED <<attempted, page, exc, login_ret>>
    /\ UNCHANGED <<entry, mainVars, parseVars, email, password,
                   save_storage_state_to, pw, browser, context, store, diag_failed, looked, frame_i, captured>>

\* Lines 227-236: the overlay's Sign In, then the form it opens.
LoginOverlay ==
    /\ pc = "login:228"
    /\ \E c \in ClickOverlayOutcomes(page) :
        LET clickLog == IF c.clicked THEN << <<"overlay_click", "login">> >> ELSE <<>>
        IN  IF c.ret
            THEN /\ attempted' = TRUE
                 /\ \E q \in WaitFormOutcomes(c.page) :
                    \E o \in TryFillOutcomes("overlay", HasLoginFields(q)) :
                        /\ log' = log \o clickLog \o << <<"wait_form", "login">> >> \o o.events
                        /\ IF o.ret
                           THEN /\ page' \in AfterSubmit(q)
                                /\ \E w \in IdleWaits :
                                    IF w = "error"
                                    THEN /\ exc' = "Error:233"
                                         /\ pc' = LoginRaisePc
                                         /\ login_ret' = login_ret
                                    ELSE /\ exc' = exc
                                         /\ pc' = LoginReturnPc
                                         /\ login_ret' = "True"
                           ELSE /\ page' = q
                                /\ pc' = "login:239"
                                /\ UNCHANGED <<exc, login_ret>>
            ELSE /\ log' = log \o clickLog
                 /\ page' = c.page
                 /\ pc' = "login:239"
                 /\ UNCHANGED <<attempted, exc, login_ret>>
    /\ UNCHANGED <<entry, mainVars, parseVars, email, password,
                   save_storage_state_to, pw, browser, context, store, diag_failed, looked, frame_i, captured>>

\* Lines 239-240: page.frames; if it raises, line 250 swallows it.
LoginFramesStart ==
    /\ pc = "login:239"
    /\ \E raised \in BOOLEAN :
        IF raised
        THEN /\ pc' = "login:253"
             /\ frame_i' = frame_i
        ELSE /\ pc' = "login:241"
             /\ frame_i' = 1
    /\ UNCHANGED <<entry, exc, mainVars, parseVars, email, password,
                   save_storage_state_to, pw, browser, context, page, store, diag_failed, looked, attempted, login_ret, captured, log>>

\* Lines 240-251 without the try of line 239: an error of the wait after
\* a submission leaves login_if_needed.
LoginFrame_unguarded ==
    /\ pc = "login:241"
    /\ IF frame_i > Len(AllFrames(page))
       THEN /\ pc' = "login:253"
            /\ UNCHANGED <<frame_i, attempted, page, login_ret, log, exc>>
       ELSE IF AllFrames(page)[frame_i] = "main"
       THEN /\ frame_i' = frame_i + 1
            /\ UNCHANGED <<pc, attempted, page, login_ret, log, exc>>
       ELSE \E o \in TryFillOutcomes("frame", AllFrames(page)[frame_i] = "form") :
            /\ log' = log \o o.events
            /\ IF o.ret
               THEN /\ attempted' = TRUE
                    /\ page' \in AfterSubmit(page)
                    /\ frame_i' = frame_i
                    /\ \E w \in IdleWaits :
                        IF w = "error"
                        THEN /\ pc' = LoginRaisePc
                             /\ exc' = "Error:246"
                             /\ login_ret' = login_ret
                        ELSE /\ pc' = LoginReturnPc
                             /\ exc' = exc
                             /\ login_ret' = "True"
               ELSE /\ frame_i' = frame_i + 1
                    /\ UNCHANGED <<pc, attempted, page, login_ret, exc>>
    /\ UNCHANGED <<entry, mainVars, parseVars, email, password,
                   save_storage_state_to, pw, browser, context,
                   store, diag_failed, looked, captured>>

\* Lines 240-251: one frame of the loop.  An error of the wait after a
\* submission is swallowed by line 250, and line 253 returns attempted.
LoginFrame ==
    /\ pc = "login:241"
    /\ IF frame_i > Len(AllFrames(page))
       THEN /\ pc' = "login:253"
            /\ UNCHANGED <<frame_i, attempted, page, login_ret, log>>
       ELSE IF AllFrames(page)[frame_i] = "main"
       THEN /\ frame_i' = frame_i + 1
            /\ UNCHANGED <<pc, attempted, page, login_ret, log>>
       ELSE \E o \in TryFillOutcomes("frame", AllFrames(page)[frame_i] = "form") :
            /\ log' = log \o o.events
            /\ IF o.ret
               THEN /\ attempted' = TRUE
                    /\ page' \in AfterSubmit(page)
                    /\ frame_i' = frame_i
                    /\ \E w \in IdleWaits :
                        IF w = "error"
                        THEN /\ pc' = "login:253"
                             /\ login_ret' = login_ret
                        ELSE /\ pc' = LoginReturnPc
                             /\ login_ret' = "True"
               ELSE /\ frame_i' = frame_i + 1
                    /\ UNCHANGED <<pc, attempted, page, login_ret>>
    /\ UNCHANGED <<entry, exc, mainVars, parseVars, email, password,
                   save_storage_state_to, pw, browser, context, store, diag_failed, looked, captured>>

\* Line 253 as `return False`.
LoginReturn_false ==
    /\ pc = "login:253"
    /\ login_ret' = "False"
    /\ pc' = LoginReturnPc
    /\ UNCHANGED <<entry, exc, mainVars, parseVars, email, password,
                   save_storage_state_to, pw, browser, context, page, store,
                   diag_failed, looked, attempted, frame_i, captured, log>>

\* Line 253
LoginReturn ==
    /\ pc = "login:253"
    /\ login_ret' = PyBool(attempted)
    /\ pc' = LoginReturnPc
    /\ UNCHANGED <<entry, exc, mainVars, parseVars, email, password,
                   save_storage_state_to, pw, browser, context, page, store, diag_failed, looked, attempted, frame_i, captured, log>>

NextLogin ==
    \/ LoginEntry
    \/ LoginInline
    \/ LoginOverlay
    \/ LoginFramesStart
    \/ LoginFrame
    \/ LoginReturn

\* ---------------------------------------------- live_fetch_profile_html
\* What UTR_EMAIL and UTR_PASSWORD may hold: unset, blank, a value.
EnvValues == {<<>>, <<" ">>, <<"u", "@", "x", " ">>}

\* Page titles: none, and a name before the first "|".
Titles == {<<>>, <<"A", "l", " ", "B", " ", "|", " ", "P", "r", "o">>}

\* Lines 314-318: the environment is read, sync_playwright() is entered.
LiveStart ==
    /\ pc = "live:314"
    /\ \E e \in EnvValues, w \in EnvValues :
        /\ email' = Strip(e)
        /\ password' = Strip(w)
    /\ save_storage_state_to' \in BOOLEAN
    /\ pw' = "running"
    /\ pc' = "live:319"
    /\ UNCHANGED <<entry, exc, mainVars, parseVars, browser, context, page, store, diag_failed, looked, attempted, frame_i, login_ret,
                   captured, log>>

\* Lines 319-324: launch, new_context, new_page; each may raise.
LiveLaunch ==
    /\ pc = "live:319"
    /\ \E fail \in {"none", "launch", "new_context", "new_page"} :
        /\ browser' = IF fail = "launch" THEN "none" ELSE "open"
        /\ context' = IF fail \in {"launch", "new_context"} THEN "none" ELSE "open"
        /\ IF fail = "none"
           THEN /\ pc' = "live:327"
                /\ exc' = exc
           ELSE /\ pc' = "live:exit"
                /\ exc' = "Error:319"
    /\ page' = BlankPage
    /\ UNCHANGED <<entry, mainVars, parseVars, email, password,
                   save_storage_state_to, pw, store, diag_failed, looked,
                   attempted, frame_i, login_ret, captured, log>>

\* Lines 327-331, enable_diagnostics (91-99): os.makedirs and page.on are
\* not guarded, tracing.start is.
LiveEnableDiagnostics ==
    /\ pc = "live:327"
    /\ \E out \in {"ok", "makedirs", "tracing", "page_on"} :
        /\ diag_failed' = (out # "ok")
        /\ IF out \in {"makedirs", "page_on"}
           THEN /\ pc' = "live:exit"
                /\ exc' = IF out = "makedirs" THEN "OSError:92" ELSE "Error:98"
           ELSE /\ pc' = "live:334"
                /\ exc' = exc
    /\ UNCHANGED <<entry, mainVars, parseVars, email, password,
                   save_storage_state_to, pw, browser, context, page, store,
                   looked, attempted, frame_i, login_ret, captured, log>>

\* Lines 334-335: the first navigation, then a screenshot.
LiveGoto ==
    /\ pc = "live:334"
    /\ \E ok \in BOOLEAN :
        IF ok
        THEN /\ page' \in PageStates
             /\ log' = Append(log, <<"goto", "profile">>)
             /\ DiagStep
             /\ pc' = "live:338"
             /\ exc' = exc
        ELSE /\ pc' = "live:exit"
             /\ exc' = "Error:334"
             /\ UNCHANGED <<page, log, diag_failed>>
    /\ UNCHANGED <<entry, mainVars, parseVars, email, password,
                   save_storage_state_to, pw, browser, context, store,
                   looked, attempted, frame_i, login_ret, captured>>

\* Line 338 with lines 351-357 moved out of the branch: a run that skips
\* the authentication still reaches the save of the session.
LiveAuthCheck_saveAlways ==
    /\ pc = "live:338"
    /\ IF CredsMissing(email, password)
       THEN /\ looked' = looked
            /\ pc' = "live:352"
       ELSE \E raised \in BOOLEAN :
            /\ looked' = PyBool(LooksLoggedIn(page, raised))
            /\ pc' = IF LooksLoggedIn(page, raised) THEN "live:352" ELSE "live:339"
    /\ UNCHANGED <<entry, exc, mainVars, parseVars, email, password,
                   save_storage_state_to, pw, browser, context, page, store,
                   diag_failed, attempted, frame_i, login_ret, captured, log>>

\* Line 338: email and password and not looks_logged_in(page).
LiveAuthCheck ==
    /\ pc = "live:338"
    /\ IF CredsMissing(email, password)
       THEN /\ looked' = looked
            /\ pc' = "live:360"
       ELSE \E raised \in BOOLEAN :
            /\ looked' = PyBool(LooksLoggedIn(page, raised))
            /\ pc' = IF LooksLoggedIn(page, raised) THEN "live:360" ELSE "live:339"
    /\ UNCHANGED <<entry, exc, mainVars, parseVars, email, password,
                   save_storage_state_to, pw, browser, context, page, store, diag_failed, attempted, frame_i, login_ret, captured, log>>

\* Lines 339-340
LiveClickOverlay ==
    /\ pc = "live:339"
    /\ \E c \in ClickOverlayOutcomes(page) :
        /\ page' = c.page
        /\ log' = IF c.clicked THEN Append(log, <<"overlay_click", "live">>) ELSE log
    /\ DiagStep
    /\ pc' = "live:342"
    /\ UNCHANGED <<entry, exc, mainVars, parseVars, email, password,
                   save_storage_state_to, pw, browser, context, store,
                   looked, attempted, frame_i, login_ret, captured>>

\* Lines 342-345: wait for the form, screenshot, call login_if_needed.
LiveWaitForm ==
    /\ pc = "live:342"
    /\ page' \in WaitFormOutcomes(page)
    /\ log' = Append(log, <<"wait_form", "live">>)
    /\ DiagStep
    /\ pc' = "login:214"
    /\ UNCHANGED <<entry, exc, mainVars, parseVars, email, password,
                   save_storage_state_to, pw, browser, context, store,
                   looked, attempted, frame_i, login_ret, captured>>

\* What the profile shows when it is loaded again at line 348: no login
\* surface (the session is accepted), or the surface it showed (it is
\* not).  Nothing after line 348 looks at the login surface again.
AfterRenavigation(p) == {p, BlankPage}

\* Lines 346-349 without the page.goto of line 348.
LiveRenavigate_skipped ==
    /\ pc = "live:346"
    /\ DiagStep
    /\ pc' = "live:352"
    /\ UNCHANGED <<entry, exc, mainVars, parseVars, email, password,
                   save_storage_state_to, pw, browser, context, page, store,
                   looked, attempted, frame_i, login_ret, captured, log>>

\* Lines 346-349: screenshot, navigate to the profile again, screenshot.
LiveRenavigate ==
    /\ pc = "live:346"
    /\ \E ok \in BOOLEAN :
        IF ok
        THEN /\ page' \in AfterRenavigation(page)
             /\ log' = Append(log, <<"goto", "profile">>)
             /\ DiagStep
             /\ pc' = "live:352"
             /\ exc' = exc
        ELSE /\ pc' = "live:exit"
             /\ exc' = "Error:348"
             /\ UNCHANGED <<page, log, diag_failed>>
    /\ UNCHANGED <<entry, mainVars, parseVars, email, password,
                   save_storage_state_to, pw, browser, context, store,
                   looked, attempted, frame_i, login_ret, captured>>

\* Lines 351-357: the session store is written when a path was given; a
\* failure is reported and swallowed.
LiveSaveStorage ==
    /\ pc = "live:352"
    /\ IF save_storage_state_to
       THEN \E ok \in BOOLEAN :
            /\ store' = ok
            /\ diag_failed' = (diag_failed \/ ~ok)
            /\ log' = IF ok THEN Append(log, <<"store", "saved">>) ELSE log
       ELSE UNCHANGED <<store, diag_failed, log>>
    /\ pc' = "live:360"
    /\ UNCHANGED <<entry, exc, mainVars, parseVars, email, password,
                   save_storage_state_to, pw, browser, context, page, looked, attempted, frame_i, login_ret, captured>>

\* Lines 360-361, wait_for_full_history_header (266-276): only PWTimeout
\* is caught.
LiveWaitHeader ==
    /\ pc = "live:360"
    /\ \E out \in {"found", "timeout", "error"} :
        IF out = "error"
        THEN /\ pc' = "live:exit"
             /\ exc' = "Error:269"
             /\ UNCHANGED <<diag_failed, log>>
        ELSE /\ pc' = "live:363"
             /\ exc' = exc
             /\ log' = Append(log, <<"wait_header", out>>)
             /\ DiagStep
    /\ UNCHANGED <<entry, mainVars, parseVars, email, password,
                   save_storage_state_to, pw, browser, context, page, store, looked, attempted, frame_i, login_ret, captured>>

\* Lines 363-364 with click_show_all_if_present starting over whenever
\* its wait (line 292) times out.
LiveShowAll_retry ==
    \/ /\ pc = "live:363"
       /\ DiagStep
       /\ pc' \in {"live:367", "show_all:293"}
       /\ UNCHANGED <<entry, exc, mainVars, parseVars, email, password,
                      save_storage_state_to, pw, browser, context, page, store,
                      looked, attempted, frame_i, login_ret, captured, log>>
    \/ /\ pc = "show_all:293"
       /\ pc' = "live:363"
       /\ UNCHANGED <<entry, exc, mainVars, parseVars, sessVars>>

\* Lines 363-364, click_show_all_if_present (278-299): every error is
\* swallowed.
LiveShowAll ==
    /\ pc = "live:363"
    /\ DiagStep
    /\ pc' = "live:367"
    /\ UNCHANGED <<entry, exc, mainVars, parseVars, email, password,
                   save_storage_state_to, pw, browser, context, page, store, looked, attempted, frame_i, login_ret, captured, log>>

\* Lines 367-368: page.title() and page.content().
LiveCapture ==
    /\ pc = "live:367"
    /\ \E ok \in BOOLEAN :
        IF ok
        THEN /\ title' \in Titles
             /\ captured' = <<page>>
             /\ log' = Append(log, <<"capture", "page">>)
             /\ pc' = "live:370"
             /\ exc' = exc
        ELSE /\ pc' = "live:exit"
             /\ exc' = "Error:367"
             /\ UNCHANGED <<title, captured, log>>
    /\ UNCHANGED <<entry, args, html, player_name, rows, csv, stdout, parseVars,
                   email, password, save_storage_state_to, pw, browser, context,
                   page, store, diag_failed, looked, attempted, frame_i,
                   login_ret>>

\* Lines 370-372: stop_tracing (109-114), context.close(), browser.close().
LiveClose ==
    /\ pc = "live:370"
    /\ DiagStep
    /\ context' = "closed"
    /\ browser' = "closed"
    /\ pc' = "live:373"
    /\ UNCHANGED <<entry, exc, mainVars, parseVars, email, password,
                   save_storage_state_to, pw, page, store, looked, attempted,
                   frame_i, login_ret, captured, log>>

\* Line 373: return html, title, leaving the with block of line 318.
LiveReturn ==
    /\ pc = "live:373"
    /\ pw' = "stopped"
    /\ pc' = IF entry = "live" THEN "live:returned" ELSE "main:417"
    /\ UNCHANGED <<entry, exc, mainVars, parseVars, email, password,
                   save_storage_state_to, browser, context, page, store,
                   diag_failed, looked, attempted, frame_i, login_ret, captured, log>>

\* An exception leaves the with block of line 318 and the function.
LiveUnwind ==
    /\ pc = "live:exit"
    /\ pw' = "stopped"
    /\ pc' = "raised"
    /\ UNCHANGED <<entry, exc, mainVars, parseVars, email, password,
                   save_storage_state_to, browser, context, page, store,
                   diag_failed, looked, attempted, frame_i, login_ret, captured, log>>

NextLive ==
    \/ LiveStart
    \/ LiveLaunch
    \/ LiveEnableDiagnostics
    \/ LiveGoto
    \/ LiveAuthCheck
    \/ LiveClickOverlay
    \/ LiveWaitForm
    \/ LiveRenavigate
    \/ LiveSaveStorage
    \/ LiveWaitHeader
    \/ LiveShowAll
    \/ LiveCapture
    \/ LiveClose
    \/ LiveReturn
    \/ LiveUnwind

\* The session functions called directly: live_fetch_profile_html with
\* any environment, and login_if_needed on any page with any credentials.
InitSession ==
    /\ exc = "none"
    /\ MainIdle
    /\ html = <<>>
    /\ ParseIdle
    /\ \/ /\ entry = "live"
          /\ pc = "live:314"
          /\ SessIdle
       \/ /\ entry = "login"
          /\ pc = "login:214"
          /\ email \in {Strip(e) : e \in EnvValues}
          /\ password \in {Strip(e) : e \in EnvValues}
          /\ page \in PageStates
          /\ pw = "running"
          /\ browser = "open"
          /\ context = "open"
          /\ save_storage_state_to = FALSE
                /\ store = FALSE
          /\ diag_failed = FALSE
          /\ looked = "unset"
          /\ attempted = FALSE
          /\ frame_i = 0
          /\ login_ret = "unset"
          /\ captured = <<>>
          /\ log = <<>>

NextSession == NextLive \/ NextLogin

SpecSession == InitSession /\ [][NextSession]_vars

\* The same with the scheduling the code has: one thread, every call it
\* makes returns or raises (each Playwright wait has a timeout), so a run
\* that can take a step takes one.
FairSession == SpecSession /\ WF_vars(NextSession)

\* -------------------------------------------------- write_csv and main
\* Lines 17-20, extract_name_from_title: title.split("|")[0].strip()
ExtractName(t) ==
    IF t = <<>> THEN <<>>
    ELSE LET bars == {i \in 1..Len(t) : t[i] = "|"}
         IN  Strip(IF bars = {} THEN t ELSE SubSeq(t, 1, SetMin(bars) - 1))

\* Line 405: re.search(r"<title>(.*?)</title>", html) on a saved document.
FileTitles == {NoMatch} \cup {[found |-> TRUE, text |-> t] : t \in Titles}

\* Lines 403-407: --html was given; the file is read (or cannot be).
MainOffline ==
    /\ pc = "main:403"
    /\ \E ok \in BOOLEAN :
        IF ok
        THEN /\ \E p \in DocParams : html' = DocOf(p)
             /\ \E t \in FileTitles :
                    player_name' = IF t.found THEN ExtractName(t.text) ELSE <<>>
             /\ pc' = "parse:27"
             /\ exc' = exc
        ELSE /\ pc' = "raised"
             /\ exc' = "OSError:404"
             /\ UNCHANGED <<html, player_name>>
    /\ UNCHANGED <<entry, args, title, rows, csv, stdout, parseVars, sessVars>>

\* Lines 411-416: no --html; live_fetch_profile_html is called.
MainLive ==
    /\ pc = "main:403"
    /\ pc' = "live:314"
    /\ UNCHANGED <<entry, exc, mainVars, parseVars, sessVars>>

\* Lines 411-417: live_fetch_profile_html returned (html, title); its
\* frame is gone and the browser is closed.
MainAfterLive ==
    /\ pc = "main:417"
    /\ player_name' = ExtractName(title)
    /\ email' = <<>>
    /\ password' = <<>>
    /\ save_storage_state_to' = FALSE
    /\ page' = BlankPage
    /\ diag_failed' = FALSE
    /\ looked' = "unset"
    /\ attempted' = FALSE
    /\ frame_i' = 0
    /\ login_ret' = "unset"
    /\ captured' = <<>>
    /\ log' = <<>>
    /\ pc' = "main:418"
    /\ UNCHANGED <<entry, exc, args, html, title, rows, csv, stdout, parseVars,
                   pw, browser, context, store>>

\* Line 418: the returned markup goes to the parser.  The session model
\* carries a page by its login surface only, so the markup's history
\* section is drawn here, where it is handed over.
MainParseLive ==
    /\ pc = "main:418"
    /\ \E p \in DocParams : html' = DocOf(p)
    /\ pc' = "parse:27"
    /\ UNCHANGED <<entry, exc, args, title, player_name, rows, csv, stdout,
                   parseVars, sessVars>>

\* df.insert with the column put last instead of first.
InsertFirst_last(columns, name) == columns \o <<name>>

\* df.insert(0, name, value) on the column list
InsertFirst(columns, name) == <<name>> \o columns

\* The columns of pd.DataFrame(rows): the keys of the row dicts (line 76).
FrameColumns == <<"date", "UTR">>

\* Where write_csv returns to.
WriteCsvReturnPc == IF entry = "write_csv" THEN "write_csv:returned" ELSE "main:returned"

\* Lines 380-383 without the test of df.empty: the file is written always.
WriteCsvCheck_unguarded ==
    /\ pc = "write_csv:380"
    /\ stdout' = stdout
    /\ pc' = "write_csv:384"
    /\ UNCHANGED <<entry, exc, args, html, title, player_name, rows, csv,
                   parseVars, sessVars>>

\* Lines 380-383: an empty frame is reported and nothing is written.
WriteCsvCheck ==
    /\ pc = "write_csv:380"
    /\ IF Len(rows) = 0
       THEN /\ stdout' = Append(stdout, "No rows found.")
            /\ pc' = WriteCsvReturnPc
       ELSE /\ stdout' = stdout
            /\ pc' = "write_csv:384"
    /\ UNCHANGED <<entry, exc, args, html, title, player_name, rows, csv,
                   parseVars, sessVars>>

\* Lines 384-386: the two columns are inserted in front, the file is
\* written (or to_csv raises).
WriteCsvFile ==
    /\ pc = "write_csv:384"
    /\ \E ok \in BOOLEAN :
        IF ok
        THEN /\ csv' = [columns |-> InsertFirst(InsertFirst(FrameColumns, "player_name"),
                                                "user_id"),
                        rows |-> [k \in 1..Len(rows) |->
                                    <<args.user_id, player_name, rows[k].date, rows[k].UTR>>]]
             /\ pc' = "write_csv:387"
             /\ exc' = exc
        ELSE /\ csv' = csv
             /\ pc' = "raised"
             /\ exc' = "OSError:386"
    /\ UNCHANGED <<entry, args, html, title, player_name, rows, stdout,
                   parseVars, sessVars>>

\* Line 387: len[df] subscripts the builtin len, which raises TypeError
\* before anything is printed.
WriteCsvReport ==
    /\ pc = "write_csv:387"
    /\ exc' = "TypeError:387"
    /\ pc' = "raised"
    /\ UNCHANGED <<entry, mainVars, parseVars, sessVars>>

NextWriteCsv ==
    \/ WriteCsvCheck
    \/ WriteCsvFile
    \/ WriteCsvReport

\* write_csv called on its own: any list of row dicts as the parser
\* builds them (keys date and UTR), any player name main can derive.
RowValues == [date : {TxtIso, TxtSlash}, UTR : {TxtUtrA, TxtUtrB, TxtUnrated}]

RowLists == UNION {[1..n -> RowValues] : n \in 0..MaxItems}

PlayerNames == {<<>>} \cup {ExtractName(t) : t \in Titles}

InitCsv ==
    /\ entry = "write_csv"
    /\ pc = "write_csv:380"
    /\ exc = "none"
    /\ html = <<>>
    /\ args = [user_id |-> USER_ID]
    /\ title = <<>>
    /\ player_name \in PlayerNames
    /\ rows \in RowLists
    /\ csv = NoFile
    /\ stdout = <<>>
    /\ ParseIdle
    /\ SessIdle

SpecCsv == InitCsv /\ [][NextWriteCsv]_vars

\* main()
Init ==
    /\ entry = "main"
    /\ pc = "main:403"
    /\ exc = "none"
    /\ html = <<>>
    /\ MainIdle
    /\ ParseIdle
    /\ SessIdle

Next ==
    \/ MainOffline
    \/ MainLive
    \/ MainAfterLive
    \/ MainParseLive
    \/ NextLive
    \/ NextLogin
    \/ NextParse
    \/ NextWriteCsv

Spec == Init /\ [][Next]_vars

\* ================================================================ claims
\* ---- helpers of the claims
Last(sq) == sq[Len(sq)]

\* The positions of the log that hold an event of the given kind.
LogAt(kind) == {k \in 1..Len(log) : log[k][1] = kind}

\* The page interactions that are part of authenticating.
AuthEvents == {"overlay_click", "wait_form", "probe", "fill", "submit"}

\* s is exactly one numeric token: \d{1,2}\.\d{1,2} and nothing else.
IsUtrToken(s) ==
    \E a \in 1..2, b \in 1..2 :
        /\ Len(s) = a + 1 + b
        /\ \A i \in 1..a : IsDigit(s[i])
        /\ s[a + 1] = "."
        /\ \A i \in (a + 2)..(a + 1 + b) : IsDigit(s[i])

ChildrenOf(doc, n) == {c \in 1..Len(doc) : doc[c].parent = n}

\* The children of n that are divs carrying the mark, in document order.
FieldsOf(doc, n, mark) == InOrder({c \in ChildrenOf(doc, n) : IsDivWith(doc, c, mark)})

\* A record node as the spec's fixture has it: a div with the history-item
\* marker, one date-marker child that is not empty, one rating-marker child
\* that holds a numeric token.
IsRecordNode(doc, n) ==
    /\ IsDivWith(doc, n, ITEM_MARK)
    /\ Len(FieldsOf(doc, n, DATE_MARK)) = 1
    /\ GetText(doc, FieldsOf(doc, n, DATE_MARK)[1], <<>>) # <<>>
    /\ Len(FieldsOf(doc, n, RATING_MARK)) = 1
    /\ SearchUtr(GetText(doc, FieldsOf(doc, n, RATING_MARK)[1], <<>>), FALSE).found

RecordNodes(doc) == {n \in 1..Len(doc) : IsRecordNode(doc, n)}

\* The record a record node stands for.
RecordOf(doc, n) ==
    [date |-> GetText(doc, FieldsOf(doc, n, DATE_MARK)[1], <<>>),
     UTR |-> SearchUtr(GetText(doc, FieldsOf(doc, n, RATING_MARK)[1], <<>>), FALSE).text]

\* The document's marked elements are its record nodes and their fields,
\* and the record nodes stand for pairwise distinct records.
IsFixture(doc) ==
    /\ \A n \in 1..Len(doc) :
        /\ Contains(doc[n].cls, ITEM_MARK) => IsRecordNode(doc, n)
        /\ (Contains(doc[n].cls, DATE_MARK) \/ Contains(doc[n].cls, RATING_MARK))
              => doc[n].parent \in RecordNodes(doc)
    /\ \A m, n \in RecordNodes(doc) : m # n => RecordOf(doc, m) # RecordOf(doc, n)

\* The records of a fixture, in document order.
FixtureRows(doc) ==
    LET ns == InOrder(RecordNodes(doc))
    IN  [k \in 1..Len(ns) |-> RecordOf(doc, ns[k])]

\* No record node lies inside another.
Unnested(doc) == \A m, n \in RecordNodes(doc) : ~IsAncestor(doc, m, n)

\* The candidate has a date the parser can find: a first date-marker
\* field with text, or a date in the text of its div and span descendants.
HasResolvableDate(doc, n) ==
    \/ /\ SelectOne(doc, n, DATE_MARK) # NONE
       /\ GetText(doc, SelectOne(doc, n, DATE_MARK), <<>>) # <<>>
    \/ SearchDate(BroadText(doc, n)).found

\* The candidate has a rating-marker field holding a numeric token.
HasRecognizableRating(doc, n) ==
    /\ SelectOne(doc, n, RATING_MARK) # NONE
    /\ SearchUtr(GetText(doc, SelectOne(doc, n, RATING_MARK), <<>>), FALSE).found

\* No element carries the history-item or the history-item-date marker.
NoRecordMarkers(doc) ==
    \A n \in 1..Len(doc) :
        ~Contains(doc[n].cls, ITEM_MARK) /\ ~Contains(doc[n].cls, DATE_MARK)

\* The run of live_fetch_profile_html has ended.
LiveEnded == entry = "live" /\ pc \in {"live:returned", "raised"}

\* ---- C1
\* C1: once browser and context exist, live_fetch_profile_html ends, by
\* return or by exception, only with context.close() and browser.close()
\* done.  (The code closes them on the return path only.)
C1_ClosedOnEveryExit ==
    (LiveEnded /\ browser # "none" /\ context # "none")
        => (context = "closed" /\ browser = "closed")

\* ---- C2
\* C2: a run that extracted at least one record and wrote the export file
\* does not end with an exception.  (Line 387 raises TypeError.)
C2_PopulatedRunExitsNormally ==
    (Len(rows) > 0 /\ csv # NoFile) => pc # "raised"

\* ---- C3
\* C3: the returned sequence holds no (date, rating) pair twice, and it is
\* the candidates' rows reduced to the first occurrence of each pair, in
\* the candidates' document order.
C3_UniqueInFirstOccurrenceOrder ==
    pc = "parse:returned" =>
        LET firsts == InOrder({k \in 1..Len(prows) :
                                \A j \in 1..(k - 1) :
                                    <<prows[j].date, prows[j].UTR>>
                                        # <<prows[k].date, prows[k].UTR>>})
        IN  /\ \A i, j \in 1..Len(rows) :
                    i # j => <<rows[i].date, rows[i].UTR>> # <<rows[j].date, rows[j].UTR>>
            /\ rows = [k \in 1..Len(firsts) |-> prows[firsts[k]]]
            /\ \A i, j \in 1..Len(item_nodes) : i < j => item_nodes[i] < item_nodes[j]

\* A returned sequence in which a repeated pair was dropped and two
\* records survive.
C3_Witness ==
    pc = "parse:returned" /\ Len(prows) > Len(rows) /\ Len(rows) >= 2

\* ---- C4
\* C4: every returned record's rating is exactly a numeric token.  (A
\* rating text without a number is kept as it is by lines 70-76.)
C4_RatingsAreNumericTokens ==
    pc = "parse:returned" => \A k \in 1..Len(rows) : IsUtrToken(rows[k].UTR)

C6_NoDateNoRecord ==
    [][(pc = "parse:54" /\ item_i <= Len(item_nodes)) =>
        /\ pc' = "parse:54"
        /\ \/ prows' = prows
           \/ /\ Len(prows') = Len(prows) + 1
              /\ SubSeq(prows', 1, Len(prows)) = prows
              /\ Last(prows').date # <<>>
              /\ Last(prows').UTR # <<>>
              /\ HasResolvableDate(html, item_nodes[item_i])
       ]_vars

\* A single candidate with a recognizable rating and no date, and an
\* empty result.
C6_Witness ==
    /\ pc = "parse:returned"
    /\ Len(item_nodes) = 1
    /\ HasRecognizableRating(html, item_nodes[1])
    /\ ~HasResolvableDate(html, item_nodes[1])
    /\ rows = <<>>

\* ---- C7
\* C7: a document without any history-item or history-item-date marker
\* yields the empty sequence and no exception, with or without a header.
C7_NoMarkersNoRows ==
    NoRecordMarkers(html) =>
        /\ pc # "raised"
        /\ pc \in {"parse:54", "parse:80", "parse:returned"} => prows = <<>>
        /\ pc = "parse:returned" => rows = <<>>

\* A document with a header string four levels deep and with content
\* (a rating field, a date in a span) but no marker, parsed to the end.
C7_Witness ==
    /\ pc = "parse:returned"
    /\ NoRecordMarkers(html)
    /\ header_node # NONE
    /\ climb = CLIMB_LEVELS
    /\ \E n \in 1..Len(html) : Contains(html[n].cls, RATING_MARK)
    /\ rows = <<>>

\* ---- C8
\* C8: with a credential missing, no authentication interaction happens:
\* no overlay click, no wait for the form, no probe, fill or submit, no
\* second navigation; login_if_needed returns False.
C8_NoCredentialsNoAuth ==
    (entry \in {"live", "login"} /\ (email = <<>> \/ password = <<>>)) =>
        /\ \A k \in 1..Len(log) : log[k][1] \notin AuthEvents
        /\ Cardinality(LogAt("goto")) <= 1
        /\ login_ret # "True"
        /\ (entry = "login" /\ pc = "login:returned") => (login_ret = "False" /\ log = <<>>)

\* A live run with a password and no email, on a page showing a login
\* form, that captured the document.
C8_Witness ==
    /\ entry = "live"
    /\ pc = "live:returned"
    /\ email = <<>>
    /\ password # <<>>
    /\ captured # <<>>
    /\ captured[1].form = "id"
    /\ captured[1].overlay = "signin"

\* ---- C9
\* C9: every capture that follows a submission of credentials has a
\* navigation between the two.
C9_RenavigatedBeforeCapture ==
    \A c \in LogAt("capture") : \A sb \in LogAt("submit") :
        sb < c => \E g \in LogAt("goto") : sb < g /\ g < c

\* A live run that submitted credentials and captured the document.
C9_Witness ==
    /\ entry = "live"
    /\ pc = "live:returned"
    /\ LogAt("submit") # {}
    /\ LogAt("capture") # {}

\* ---- C10
\* C10 as claimed: no outcome of the login sequence ends the live run:
\* no exception leaves login_if_needed.
C10_LoginNeverAborts ==
    (entry = "live" /\ pc = "raised") => exc \notin {"Error:222", "Error:233"}

\* C10 as amended: a live run that entered the login sequence ends with
\* an exception only from the re-navigation, the header wait or the
\* capture, or from an error other than a timeout of the wait that
\* follows a submission in the page; finding no login surface, a failed
\* fill or submit, and a timeout of that wait end none.
C10_OnlyWaitErrorAborts ==
    (entry = "live" /\ pc \in {"live:exit", "raised"} /\ looked = "False") =>
        /\ exc \in {"Error:222", "Error:233", "Error:348", "Error:269", "Error:367"}
        /\ exc = "Error:222" => Last(log) = <<"submit", "inline">>
        /\ exc = "Error:233" => Last(log) = <<"submit", "overlay">>

\* A live run in which no location held a login form, yet the document
\* was captured.
C10_Witness ==
    /\ entry = "live"
    /\ pc = "live:returned"
    /\ looked = "False"
    /\ login_ret = "False"
    /\ LogAt("submit") = {}
    /\ Cardinality(LogAt("probe")) >= 2
    /\ captured # <<>>

\* ---- C11
\* C11: no failure of a diagnostic or session-persistence step ends a live
\* run: the run never ends with the exception of os.makedirs (line 92) or
\* of page.on (lines 98-99).  (Neither call is guarded.)
C11_DiagnosticsNeverAbort ==
    (entry = "live" /\ pc = "raised") => exc \notin {"OSError:92", "Error:98"}

\* ---- C12
\* C12: with zero records write_csv writes no file, prints the no-rows
\* notice and returns without an exception; a file exists only when
\* there is at least one record.
C12_NoRowsNoFile ==
    /\ Len(rows) = 0 =>
        /\ csv = NoFile
        /\ pc # "raised"
        /\ pc \in {"write_csv:returned", "main:returned"} => stdout = <<"No rows found.">>
    /\ csv # NoFile => Len(rows) >= 1

\* write_csv has returned from an empty list of records: no file, the
\* notice printed.
C12_Witness ==
    /\ entry = "write_csv"
    /\ pc = "write_csv:returned"
    /\ rows = <<>>
    /\ csv = NoFile
    /\ stdout = <<"No rows found.">>

\* ---- C13
\* C13 as claimed: the export has one row per record and exactly the
\* columns user_id, player_name, date, rating in that order.
C13_ColumnsWithRating ==
    csv # NoFile =>
        /\ csv.columns = <<"user_id", "player_name", "date", "rating">>
        /\ Len(csv.rows) = Len(rows)

\* C13 as amended: the export has one row per record, in the records'
\* order, with exactly the columns user_id, player_name, date, UTR in
\* that order; user_id and player_name are the run's in every row.
C13_ColumnsWithUTR ==
    csv # NoFile =>
        /\ csv.columns = <<"user_id", "player_name", "date", "UTR">>
        /\ Len(csv.rows) = Len(rows)
        /\ \A k \in 1..Len(rows) :
            /\ Len(csv.rows[k]) = 4
            /\ csv.rows[k][1] = args.user_id
            /\ csv.rows[k][2] = player_name
            /\ csv.rows[k][3] = rows[k].date
            /\ csv.rows[k][4] = rows[k].UTR

\* A file of two rows written for a named player.
C13_Witness ==
    /\ entry = "write_csv"
    /\ csv # NoFile
    /\ Len(csv.rows) = 2
    /\ csv.rows[1] # csv.rows[2]
    /\ player_name # <<>>

\* ---- C14
\* The first CLIMB_LEVELS ancestors of node h: the nodes the climb tests.
TestedAncestors(doc, h) ==
    LET anc[k \in 0..CLIMB_LEVELS] ==
            IF k = 0 THEN h
            ELSE IF anc[k - 1] \in {NONE, SOUP} THEN NONE
            ELSE ParentOf(doc, anc[k - 1])
    IN  {anc[k] : k \in 1..CLIMB_LEVELS} \ {NONE}

\* C14: with a header found and no tested ancestor holding a record
\* marker, the candidates are those of the whole document.  (After four
\* turns the container is the header's fifth ancestor, never tested.)
C14_ExhaustedClimbWholeDocument ==
    (/\ pc \in {"parse:54", "parse:80", "parse:returned"}
     /\ header_node # NONE
     /\ \A a \in TestedAncestors(html, header_node) : ~HasRecordMarker(html, a))
        => item_nodes = ItemNodes(html, SOUP)

\* ---- C15
\* The location an event of the log belongs to: 0 for the steps of
\* live_fetch_profile_html (navigation, its own overlay click and form
\* wait, the capture), 1 inline, 2 overlay, 3 frame.
StageOf(e) ==
    IF e[1] \in {"probe", "fill", "submit"}
    THEN (IF e[2] = "inline" THEN 1 ELSE IF e[2] = "overlay" THEN 2 ELSE 3)
    ELSE IF e[1] \in {"overlay_click", "wait_form"} /\ e[2] = "login" THEN 2
    ELSE 0

\* The positions of the log that are steps of login_if_needed.
LoginSteps == {k \in 1..Len(log) : StageOf(log[k]) > 0}

\* C15 as claimed: in a live run the first login interaction is the
\* inline probe, and the overlay's Sign In is clicked only after it.
C15_InlineProbeFirst ==
    entry = "live" =>
        \A k \in 1..Len(log) :
            log[k][1] = "overlay_click" =>
                \E j \in 1..(k - 1) : log[j] = <<"probe", "inline">>

\* C15 as amended: inside login_if_needed the locations go inline, then
\* overlay, then frames: nothing of a later location precedes anything of
\* an earlier one, the first step is the inline probe, the overlay and
\* the frames are reached only with no submission before, and the frames
\* after the main frame are probed one by one in order.  The overlay
\* click of live_fetch_profile_html itself (line 339) precedes all of it.
C15_LocationsInOrder ==
    /\ \A j, k \in LoginSteps : j < k => StageOf(log[j]) <= StageOf(log[k])
    /\ LoginSteps # {} => log[SetMin(LoginSteps)] = <<"probe", "inline">>
    /\ \A k \in LoginSteps :
            StageOf(log[k]) = 2 => <<"submit", "inline">> \notin {log[j] : j \in 1..k}
    /\ \A k \in LoginSteps :
            StageOf(log[k]) = 3 =>
                \A j \in 1..(k - 1) : log[j][1] = "submit" => StageOf(log[j]) = 3
    /\ \A j \in 1..Len(log), k \in LoginSteps :
            (log[j][1] \in {"overlay_click", "wait_form"} /\ log[j][2] = "live") => j < k
    /\ pc = "login:241" =>
            Cardinality({k \in 1..Len(log) : log[k] = <<"probe", "frame">>})
                = (IF frame_i <= 1 THEN 0 ELSE frame_i - 2)

\* A live run that clicked the overlay before login_if_needed and then
\* went through all three locations.
C15_Witness ==
    /\ entry = "live"
    /\ <<"overlay_click", "live">> \in Range(log)
    /\ <<"overlay_click", "login">> \in Range(log)
    /\ <<"probe", "overlay">> \in Range(log)
    /\ <<"probe", "frame">> \in Range(log)

\* ---- C16
\* C16: login_if_needed submits credentials in one location at most, and
\* after a submission it probes, fills and clicks nothing more.
C16_OneSubmission ==
    /\ Cardinality(LogAt("submit")) <= 1
    /\ \A sb \in LogAt("submit") : \A k \in LoginSteps : k <= sb

\* The inline form was found but filling it failed, the overlay's form
\* took the credentials, and the frame holding a form was never probed.
C16_Witness ==
    /\ login_ret = "True"
    /\ <<"fill", "inline">> \in Range(log)
    /\ <<"submit", "overlay">> \in Range(log)
    /\ Len(page.frames) >= 1
    /\ page.frames[1] = "form"
    /\ <<"probe", "frame">> \notin Range(log)

\* ---- C17
\* C17 as claimed: login_if_needed returns True only if credentials were
\* submitted somewhere.
C17_TrueOnlyAfterSubmission ==
    login_ret = "True" => LogAt("submit") # {}

\* C17 as amended: login_if_needed returns True exactly when credentials
\* were submitted or its click of the overlay's Sign In succeeded (the
\* wait for the form followed), and False otherwise.
C17_TrueAfterAttempt ==
    login_ret \in {"True", "False"} =>
        (login_ret = "True"
            <=> (LogAt("submit") # {} \/ <<"wait_form", "login">> \in Range(log)))

\* All three locations were tried, nothing was submitted, the overlay's
\* Sign In was clicked on the way, and the result is True.
C17_Witness ==
    /\ login_ret = "True"
    /\ LogAt("submit") = {}
    /\ <<"probe", "inline">> \in Range(log)
    /\ <<"overlay_click", "login">> \in Range(log)
    /\ <<"probe", "overlay">> \in Range(log)
    /\ <<"probe", "frame">> \in Range(log)

\* ---- C18
\* C18: looks_logged_in returns True only for a page with no overlay, no
\* email or password input that the login step would use, and no sign-in
\* button.  (It looks for the inputs by id only.)
C18_LoggedInMeansNoLoginSurface ==
    (entry = "live" /\ pc = "live:360" /\ looked = "True") =>
        /\ page.overlay = "none"
        /\ ~HasLoginFields(page)
        /\ page.form = "none"
        /\ ~page.button

\* ---- C19
\* C19: every live run ends: live_fetch_profile_html eventually returns
\* with a captured document, or ends with an exception.
C19_LiveRunTerminates ==
    (entry = "live" /\ pc = "live:314")
        ~> \/ pc = "live:returned" /\ captured # <<>>
           \/ pc = "raised" /\ exc # "none"

\* A live run that went through the login chain with every wait timing
\* out or finding nothing, over a page with a frame, and returned.
C19_Witness ==
    /\ entry = "live"
    /\ pc = "live:returned"
    /\ captured # <<>>
    /\ <<"probe", "frame">> \in Range(log)
    /\ <<"wait_header", "timeout">> \in Range(log)
    /\ LogAt("submit") = {}

\* ---- C20
\* C20: the session store is written only in a live run that was given a
\* save path, had both credentials and found the first page not looking
\* logged in, and only after the second navigation and before the
\* capture; whether credentials were submitted plays no part.
C20_StoreOnlyInAuthBranch ==
    /\ store <=> LogAt("store") # {}
    /\ Cardinality(LogAt("store")) <= 1
    /\ \A st \in LogAt("store") :
        /\ entry = "live"
        /\ save_storage_state_to
        /\ email # <<>>
        /\ password # <<>>
        /\ looked = "False"
        /\ Cardinality({g \in LogAt("goto") : g < st}) = 2
        /\ \A c \in LogAt("capture") : st < c

\* A run that entered the authentication branch, submitted nothing, and
\* wrote the store.
C20_Witness ==
    /\ entry = "live"
    /\ pc = "live:returned"
    /\ store
    /\ LogAt("submit") = {}
    /\ login_ret = "False"

====
